---- MODULE Spec2Model ----
(***************************************************************************)
(* Model of the fun-ai-studio runner: the job loop of runner/main.py and   *)
(* the heartbeat threads it starts, with the queue client of               *)
(* runner/deploy_client.py.                                                *)
(*                                                                         *)
(* main() is one function invocation that loops forever.  _hb_loop is a    *)
(* nested function: job_id, stop_hb and hb_lock are cell variables of the  *)
(* frame of main, shared by every heartbeat thread ever started; a thread  *)
(* reads the cell each time it evaluates the name.  Threads are daemon     *)
(* threads and are never joined.                                           *)
(*                                                                         *)
(* heartbeat_job (deploy_client.py:17) has the parameters job_id and       *)
(* extend_seconds only and returns None.  The phase heartbeats of main     *)
(* (main.py:88, 97, 101, 113) pass phase= and phase_message=, so the call  *)
(* raises TypeError before any request is sent.  Every path from a claimed *)
(* job to main.py:89-105 and main.py:114-129 passes such a call: those     *)
(* lines are unreachable and have no action here.                          *)
(*                                                                         *)
(* The queue is the environment: each claim_job call raises, returns no    *)
(* job, or returns a job the queue has not handed out before.              *)
(*                                                                         *)
(* Spec is the job loop with its threads.  CallSpec is one call of a       *)
(* function taken by itself - the interval computation of _hb_loop,        *)
(* ensure_clean_dir, git_clone, docker_rmi and acr_delete_image of         *)
(* runner/build_ops.py -                                                   *)
(* with its arguments and the answers of its environment drawn from        *)
(* bounded sets; the job loop stands still in it, and `call` stands still  *)
(* in Spec.                                                                *)
(***************************************************************************)
EXTENDS Integers, Sequences, FiniteSets, TLC

\* ---------------------------------------------------------------- bounds
MaxClaims == 2          \* claim_job calls made by the loop
MaxLease == 40          \* largest JOB_LEASE_SECONDS looked at

\* -------------------------------------------------------------- constants
NoId == 0               \* job.get("id") is None or ""; also an unbound cell
Unbound == 0            \* stop_hb / hb_lock not assigned yet
Free == -1              \* nobody holds the lock
MainThread == 0         \* holder id of the job loop
None == [kind |-> "none"]

Iters == 1..MaxClaims   \* iteration k creates Event k, Lock k and thread k

VARIABLES
    pc,         \* position of the job loop
    claims,     \* number of claim_job calls so far = index of the iteration
    job,        \* value returned by claim_job in this iteration
    job_id,     \* cell job_id of main
    stop_hb,    \* cell stop_hb of main: an Event, or Unbound
    hb_lock,    \* cell hb_lock of main: a Lock, or Unbound
    isSet,      \* flag of each threading.Event
    holder,     \* holder of each threading.Lock
    hb,         \* the heartbeat threads
    phase,      \* phase label of the phase heartbeat being issued
    exc,        \* the exception being handled by main.py:130
    reportRaised, \* the report_job call of the handler raised (swallowed)
    reports,    \* report_job calls invoked, in order
    claimed,    \* ids of the jobs claim_job has returned
    call        \* one call of a function of the runner, taken by itself

vars == <<pc, claims, job, job_id, stop_hb, hb_lock, isSet, holder, hb, phase,
          exc, reportRaised, reports, claimed, call>>

\* The state of the job loop and its threads.
loopVars == <<pc, claims, job, job_id, stop_hb, hb_lock, isSet, holder, hb,
              phase, exc, reportRaised, reports, claimed>>

\* No function is being looked at by itself.
NoCall == [fn |-> "none"]

\* A claimed job, reduced to what main() branches on.
\*   id          job.get("id"), NoId when missing or empty
\*   wellformed  lines 31-38 do not raise (payload is an object,
\*               containerPort is an integer)
\*   image       payload.image is non-empty
\*   registry    payload.acrRegistry or settings.ACR_REGISTRY is non-empty
\*   fields      payload.appId and runtimeNode.agentBaseUrl are non-empty
\* A field the reachable code never reads for a job is fixed to FALSE:
\* nothing after line 38 for a malformed job, the registry for a supplied
\* image, appId and agentBaseUrl (line 107) for a build from source.
Jobs(id) ==
    { j \in [kind : {"job"}, id : {id, NoId}, wellformed : BOOLEAN,
             image : BOOLEAN, registry : BOOLEAN, fields : BOOLEAN] :
        /\ ~j.wellformed => ~j.image /\ ~j.registry /\ ~j.fields
        /\ j.image => ~j.registry
        /\ ~j.image => ~j.fields }

\* A heartbeat thread: its position, the Lock it holds, the job its request
\* in flight names, what its last call ended with, and how many of its
\* calls failed in a row (counted up to two).
NoThread == [pc |-> "none", lk |-> Unbound, sent |-> NoId, got |-> "-", fails |-> 0]

LoopInit ==
    /\ pc = "claim"
    /\ claims = 0
    /\ job = None
    /\ job_id = NoId
    /\ stop_hb = Unbound
    /\ hb_lock = Unbound
    /\ isSet = [e \in Iters |-> FALSE]
    /\ holder = [l \in Iters |-> Free]
    /\ hb = [k \in Iters |-> NoThread]
    /\ phase = ""
    /\ exc = ""
    /\ reportRaised = FALSE
    /\ reports = <<>>
    /\ claimed = {}

Init == LoopInit /\ call = NoCall

\* ------------------------------------------------------------ queue client

\* deploy_client.py:17 - the names a call of heartbeat_job may bind.
heartbeat_job_params == {"job_id", "extend_seconds"}

\* The keyword arguments of the phase heartbeats of main.
phase_call_keywords == {"phase", "phase_message"}

\* What the queue answers to a heartbeat request: the call fails ("raise":
\* transport error, HTTP error status or code # 200), or the response
\* carries no status (""), "RUNNING", or a status that is not RUNNING.
HttpOutcomes == {"raise", "", "RUNNING", "CANCELED"}

\* Outcome of calling heartbeat_job with keyword arguments kw when the
\* request, if one is sent, ends as http.  A keyword the signature does not
\* have raises TypeError before any request.  The function has no return
\* statement: the status of the response is dropped, the result is None.
heartbeat_job(kw, http) ==
    IF ~(kw \subseteq heartbeat_job_params)
       THEN [raises |-> TRUE, sent |-> FALSE, data |-> "None"]
       ELSE [raises |-> http = "raise", sent |-> TRUE, data |-> "None"]

\* main.py:59 - status = str((data or {}).get("status") or "")
hb_status(data) == IF data = "None" THEN "" ELSE data

\* main.py:61 - `if status and status != "RUNNING"`
hb_should_stop(status) == status # "" /\ status # "RUNNING"

\* ---------------------------------------------------------------- job loop

\* main.py:26 - `if not job`
no_job(j) == j = None

\* main.py:25 - claim_job raises
ClaimRaises ==
    /\ pc = "claim"
    /\ claims < MaxClaims
    /\ claims' = claims + 1
    /\ exc' = "claim_job"
    /\ pc' = "except"
    /\ UNCHANGED <<call, job, job_id, stop_hb, hb_lock, isSet, holder, hb, phase,
                   reportRaised, reports, claimed>>

\* main.py:25-26 - claim_job returns; no job goes to the sleep of line 27
Claim ==
    /\ pc = "claim"
    /\ claims < MaxClaims
    /\ \E j \in {None} \cup Jobs(claims + 1) :
          /\ job' = j
          /\ pc' = IF no_job(j) THEN "idle" ELSE "assign"
          /\ claimed' = IF no_job(j) \/ j.id = NoId THEN claimed
                                                  ELSE claimed \cup {j.id}
    /\ claims' = claims + 1
    /\ UNCHANGED <<call, job_id, stop_hb, hb_lock, isSet, holder, hb, phase, exc,
                   reportRaised, reports>>

\* Line 28 left out: the loop body goes on with job = None, job.get of
\* line 30 raises and the handler runs.
IdleSleepNoContinue ==
    /\ pc = "idle"
    /\ pc' = "except"
    /\ exc' = "AttributeError"
    /\ UNCHANGED <<call, claims, job, job_id, stop_hb, hb_lock, isSet, holder, hb,
                   phase, reportRaised, reports, claimed>>

\* main.py:27-28 - time.sleep(POLL_SECONDS); continue
IdleSleep ==
    /\ pc = "idle"
    /\ pc' = "claim"
    /\ UNCHANGED <<call, claims, job, job_id, stop_hb, hb_lock, isSet, holder, hb,
                   phase, exc, reportRaised, reports, claimed>>

\* main.py:30 - job_id = job.get("id")
AssignJobId ==
    /\ pc = "assign"
    /\ job_id' = job.id
    /\ pc' = "fields"
    /\ UNCHANGED <<call, claims, job, stop_hb, hb_lock, isSet, holder, hb, phase,
                   exc, reportRaised, reports, claimed>>

\* main.py:31-46 - read runtimeNode and payload; int(containerPort) or a
\* payload that is no object raises
ParseFields ==
    /\ pc = "fields"
    /\ IF job.wellformed
          THEN pc' = "start_hb" /\ exc' = exc
          ELSE pc' = "except" /\ exc' = "payload"
    /\ UNCHANGED <<call, claims, job, job_id, stop_hb, hb_lock, isSet, holder, hb,
                   phase, reportRaised, reports, claimed>>

\* main.py:49-70 - stop_hb = threading.Event(); hb_lock = threading.Lock();
\* threading.Thread(target=_hb_loop, daemon=True).start()
StartHeartbeat ==
    /\ pc = "start_hb"
    /\ stop_hb' = claims
    /\ hb_lock' = claims
    /\ hb' = [hb EXCEPT ![claims].pc = "loop"]
    /\ pc' = "image"
    /\ UNCHANGED <<call, claims, job, job_id, isSet, holder, phase, exc,
                   reportRaised, reports, claimed>>

\* The build branch taken whatever payload.image holds.
builds_always(j) == TRUE

\* main.py:75 - `if not image`: the job is built from source
builds_from_source(j) == ~j.image

\* The build branch going on without a registry.
registry_missing_ignored(j) == FALSE

\* main.py:79-81 - `if not registry`, registry being payload.acrRegistry or
\* settings.ACR_REGISTRY
registry_missing(j) == ~j.registry

\* main.py:73-86, 104-105 - choose the build branch or the supplied image;
\* the build branch raises at line 82 when no registry is known
ResolveImage ==
    /\ pc = "image"
    /\ IF builds_from_source(job)
          THEN IF registry_missing(job)
                  THEN pc' = "except" /\ exc' = "missing ACR_REGISTRY" /\ phase' = phase
                  ELSE pc' = "phase_lock" /\ exc' = exc /\ phase' = "CLONE"
          ELSE pc' = "check" /\ exc' = exc /\ phase' = phase
    /\ UNCHANGED <<call, claims, job, job_id, stop_hb, hb_lock, isSet, holder, hb,
                   reportRaised, reports, claimed>>

\* main.py:107-111 - required fields of the deploy call
CheckFields ==
    /\ pc = "check"
    /\ IF job_id = NoId \/ ~job.fields \/ ~job.image
          THEN pc' = "except" /\ exc' = "missing fields" /\ phase' = phase
          ELSE pc' = "phase_lock" /\ exc' = exc /\ phase' = "DEPLOY"
    /\ UNCHANGED <<call, claims, job, job_id, stop_hb, hb_lock, isSet, holder, hb,
                   reportRaised, reports, claimed>>

\* A with block that keeps the lock when its body raises.
with_exit_unless_raised(h, l, raises) ==
    IF raises THEN h ELSE [h EXCEPT ![l] = Free]

\* main.py:57, 87, 112 - leaving `with hb_lock:` releases the Lock the
\* block acquired, whether the body returned or raised
with_exit(h, l, raises) == [h EXCEPT ![l] = Free]

\* main.py:87, 112 - `with hb_lock:` of a phase heartbeat
PhaseLock ==
    /\ pc = "phase_lock"
    /\ holder[hb_lock] = Free
    /\ holder' = [holder EXCEPT ![hb_lock] = MainThread]
    /\ pc' = "phase_call"
    /\ UNCHANGED <<call, claims, job, job_id, stop_hb, hb_lock, isSet, hb, phase,
                   exc, reportRaised, reports, claimed>>

\* main.py:88, 113 - heartbeat_job(..., phase=..., phase_message=...) inside
\* the with block; leaving the block by the exception releases the lock
PhaseHeartbeat ==
    /\ pc = "phase_call"
    /\ \E http \in HttpOutcomes :
          /\ heartbeat_job(phase_call_keywords, http).raises
          /\ exc' = "heartbeat_job"
          /\ holder' = with_exit(holder, hb_lock,
                                 heartbeat_job(phase_call_keywords, http).raises)
    /\ pc' = "except"
    /\ UNCHANGED <<call, claims, job, job_id, stop_hb, hb_lock, isSet, hb, phase,
                   reportRaised, reports, claimed>>

\* The test of the handler with its sense inverted.
knows_job_id_inverted(id) == id = NoId

\* main.py:134 - `"job_id" in locals() and locals().get("job_id")`
knows_job_id(id) == id # NoId

\* The handler reporting the wrong terminal status.
handler_status_succeeded == "SUCCEEDED"

\* main.py:135 - the status the handler reports
handler_status == "FAILED"

\* main.py:131-137 - best-effort report_job(job_id, "FAILED", str(e)); an
\* exception of the call is swallowed
ReportFailed ==
    /\ pc = "except"
    /\ IF knows_job_id(job_id)
          THEN /\ reports' = Append(reports,
                    [job |-> job_id, status |-> handler_status, iter |-> claims])
               /\ reportRaised' \in BOOLEAN
          ELSE /\ reports' = reports
               /\ reportRaised' = FALSE
    /\ pc' = "stop"
    /\ UNCHANGED <<call, claims, job, job_id, stop_hb, hb_lock, isSet, holder, hb,
                   phase, exc, claimed>>

\* The handler without lines 138-142.
StopHbSkipped ==
    /\ pc = "stop"
    /\ pc' = "retry"
    /\ UNCHANGED <<call, claims, job, job_id, stop_hb, hb_lock, isSet, holder, hb,
                   phase, exc, reportRaised, reports, claimed>>

\* main.py:138-142 - locals()["stop_hb"].set() when the cell is bound
StopHb ==
    /\ pc = "stop"
    /\ isSet' = IF stop_hb # Unbound THEN [isSet EXCEPT ![stop_hb] = TRUE] ELSE isSet
    /\ pc' = "retry"
    /\ UNCHANGED <<call, claims, job, job_id, stop_hb, hb_lock, holder, hb, phase,
                   exc, reportRaised, reports, claimed>>

\* main.py:143 - time.sleep(POLL_SECONDS), then the next iteration; the
\* locals of the finished iteration that the next one overwrites before
\* reading are cleared here
RetrySleep ==
    /\ pc = "retry"
    /\ pc' = "claim"
    /\ job' = None
    /\ exc' = ""
    /\ phase' = ""
    /\ reportRaised' = FALSE
    /\ UNCHANGED <<call, claims, job_id, stop_hb, hb_lock, isSet, holder, hb,
                   reports, claimed>>

\* --------------------------------------------------------- heartbeat thread

\* main.py:55 - `while not stop_hb.is_set()`, on the Event the cell holds
\* now; a set Event ends the thread
HbCheck(k) ==
    /\ hb[k].pc = "loop"
    /\ hb' = [hb EXCEPT ![k].pc = IF isSet[stop_hb] THEN "done" ELSE "acquire",
                        ![k].fails = IF isSet[stop_hb] THEN 0 ELSE @]
    /\ UNCHANGED <<call, pc, claims, job, job_id, stop_hb, hb_lock, isSet, holder,
                   phase, exc, reportRaised, reports, claimed>>

\* main.py:57-58 - `with hb_lock:` takes the Lock the cell holds now, then
\* heartbeat_job(str(job_id), ...) sends the request for the job the cell
\* names now
HbHeartbeat(k) ==
    /\ hb[k].pc = "acquire"
    /\ holder[hb_lock] = Free
    /\ holder' = [holder EXCEPT ![hb_lock] = k]
    /\ hb' = [hb EXCEPT ![k].pc = "inflight", ![k].lk = hb_lock, ![k].sent = job_id]
    /\ UNCHANGED <<call, pc, claims, job, job_id, stop_hb, hb_lock, isSet,
                   phase, exc, reportRaised, reports, claimed>>

\* A heartbeat exception that is not caught ends the thread.
hb_after_call_uncaught(raises, stop) ==
    IF raises \/ stop THEN "done" ELSE "wait"

\* main.py:56-67 - where the thread goes when its call has ended: `return`
\* after a status that is not RUNNING, else (also after an exception, which
\* is caught and logged) the wait of line 67
hb_after_call(raises, stop) ==
    IF ~raises /\ stop THEN "done" ELSE "wait"

\* main.py:58-66 - the call ends and the with block releases the lock; a
\* status that is not RUNNING sets the stop flag and ends the thread
HbReturn(k) ==
    /\ hb[k].pc = "inflight"
    /\ \E http \in HttpOutcomes :
          LET r == heartbeat_job({}, http)
              stop == hb_should_stop(hb_status(r.data))
              next == hb_after_call(r.raises, stop)
          IN
          /\ isSet' = IF ~r.raises /\ stop THEN [isSet EXCEPT ![stop_hb] = TRUE]
                                           ELSE isSet
          /\ hb' = [hb EXCEPT ![k] =
                      [pc |-> next, lk |-> Unbound, sent |-> NoId, got |-> http,
                       fails |-> IF next = "done" \/ ~r.raises THEN 0
                                 ELSE IF hb[k].fails < 2 THEN hb[k].fails + 1
                                 ELSE 2]]
          /\ holder' = with_exit(holder, hb[k].lk, r.raises)
    /\ UNCHANGED <<call, pc, claims, job, job_id, stop_hb, hb_lock, phase, exc,
                   reportRaised, reports, claimed>>

\* main.py:67 - stop_hb.wait(interval) on the Event the cell holds now: it
\* returns when that Event is set or the interval has elapsed
HbWait(k) ==
    /\ hb[k].pc = "wait"
    /\ hb' = [hb EXCEPT ![k].pc = "loop", ![k].got = "-"]
    /\ UNCHANGED <<call, pc, claims, job, job_id, stop_hb, hb_lock, isSet, holder,
                   phase, exc, reportRaised, reports, claimed>>

Hb(k) == HbCheck(k) \/ HbHeartbeat(k) \/ HbReturn(k) \/ HbWait(k)

Main ==
    \/ ClaimRaises \/ Claim \/ IdleSleep \/ AssignJobId \/ ParseFields
    \/ StartHeartbeat \/ ResolveImage \/ CheckFields
    \/ PhaseLock \/ PhaseHeartbeat \/ ReportFailed \/ StopHb \/ RetrySleep

Next == Main \/ \E k \in Iters : Hb(k)

Spec == Init /\ [][Next]_vars

\* Every step is taken infinitely often while it stays possible: the job
\* loop and each thread are scheduled by the interpreter, and a blocking
\* call returns or times out.
FairSpec == Spec /\ WF_vars(Main) /\ \A k \in Iters : WF_vars(Hb(k))

\* ------------------------------------------------- functions by themselves
\* One call of one function, its arguments and what its environment answers
\* drawn from bounded sets.  call.pc is "call" before the function runs and
\* "done" when it has returned or raised.

Max(a, b) == IF a >= b THEN a ELSE b

\* int(x / 2) of Python: true division, then truncation towards zero
int_half(x) == IF x >= 0 THEN x \div 2 ELSE -((-x) \div 2)

\* The interval being the whole lease.
hb_interval_whole_lease(lease) == Max(5, lease)

\* main.py:54 - interval = max(5, int(settings.JOB_LEASE_SECONDS / 2))
hb_interval(lease) == Max(5, int_half(lease))

\* settings.py:14 - JOB_LEASE_SECONDS, a positive integer
IntervalCalls ==
    { [fn |-> "hb_interval", pc |-> "call", lease |-> l, interval |-> 0] :
        l \in 1..MaxLease }

\* main.py:54 - the first statement of _hb_loop
HbInterval ==
    /\ call.fn = "hb_interval" /\ call.pc = "call"
    /\ call' = [call EXCEPT !.pc = "done", !.interval = hb_interval(call.lease)]
    /\ UNCHANGED loopVars

\* What subprocess.run([docker, "rmi", "-f", image], timeout=60,
\* check=False) ends with: an exit status, or an exception.
RmiOutcomes == {"exit 0", "exit 1", "TimeoutExpired", "OSError"}

\* docker_rmi with no try block around subprocess.run.
docker_rmi_uncaught(image, out) ==
    IF image = ""
       THEN [ran |-> FALSE, logged |-> "", result |-> "returned"]
       ELSE IF out \in {"TimeoutExpired", "OSError"}
               THEN [ran |-> TRUE, logged |-> "", result |-> "raised"]
               ELSE [ran |-> TRUE, logged |-> "info", result |-> "returned"]

\* build_ops.py:139-155 - docker_rmi: nothing for an empty image; the exit
\* status is not looked at (check=False); an exception of subprocess.run is
\* logged as a warning
docker_rmi(image, out) ==
    IF image = ""
       THEN [ran |-> FALSE, logged |-> "", result |-> "returned"]
       ELSE IF out \in {"TimeoutExpired", "OSError"}
               THEN [ran |-> TRUE, logged |-> "warning", result |-> "returned"]
               ELSE [ran |-> TRUE, logged |-> "info", result |-> "returned"]

RmiCalls ==
    { [fn |-> "docker_rmi", pc |-> "call", image |-> i, out |-> "-",
       ran |-> FALSE, logged |-> "", result |-> "-"] : i \in {"", "image"} }

\* build_ops.py:139-155 - one call of docker_rmi
DockerRmi ==
    /\ call.fn = "docker_rmi" /\ call.pc = "call"
    /\ \E out \in RmiOutcomes :
          LET r == docker_rmi(call.image, out) IN
          call' = [call EXCEPT !.pc = "done", !.out = IF r.ran THEN out ELSE "-",
                               !.ran = r.ran, !.logged = r.logged,
                               !.result = r.result]
    /\ UNCHANGED loopVars

\* What a path is: nothing, a regular file, a directory without entries, a
\* directory with entries.
DirStates == {"absent", "file", "empty", "full"}

\* shutil.rmtree(path, ignore_errors=True): the tree is gone, or an error
\* (ignored) has left the directory and, if it had entries, entries in it.
RmtreeOutcomes == {"removed", "error ignored"}

\* os.makedirs of a path that does not exist
MakedirsOutcomes == {"ok", "OSError"}

\* build_ops.py:71-74 - ensure_clean_dir: rmtree when the path is a
\* directory, errors ignored; then makedirs(exist_ok=True), which creates
\* the missing directory, accepts an existing one as it is and raises
\* FileExistsError for a regular file
ensure_clean_dir(before, rm, mk) ==
    LET isdir == before \in {"empty", "full"}
        mid == IF isdir /\ rm = "removed" THEN "absent" ELSE before
    IN  CASE mid = "absent" /\ mk = "ok" -> [after |-> "empty", result |-> "returned"]
          [] mid = "absent" /\ mk # "ok" -> [after |-> "absent", result |-> "raised"]
          [] mid = "file" -> [after |-> "file", result |-> "raised"]
          [] OTHER -> [after |-> mid, result |-> "returned"]

CleanDirCalls ==
    { [fn |-> "ensure_clean_dir", pc |-> "call", before |-> d, rm |-> "-",
       mk |-> "-", after |-> d, result |-> "-"] : d \in DirStates }

\* build_ops.py:71-74 - one call of ensure_clean_dir
EnsureCleanDir ==
    /\ call.fn = "ensure_clean_dir" /\ call.pc = "call"
    /\ \E rm \in RmtreeOutcomes : \E mk \in MakedirsOutcomes :
          LET r == ensure_clean_dir(call.before, rm, mk) IN
          call' = [call EXCEPT !.pc = "done", !.rm = rm, !.mk = mk,
                               !.after = r.after, !.result = r.result]
    /\ UNCHANGED loopVars

\* ---- acr_delete_image (build_ops.py:158-355), one step per HTTP request

\* build_ops.py:193-200 - the Accept types of the sweep of _get_manifest_any
NumAccepts == 6

\* HTTP statuses a registry answers with: 200; 202, one of (200, 201, 202)
\* that is not 200; 401; 404; 500 for every other status.
Statuses == {200, 202, 401, 404, 500}

\* The bodies of a 200 answer of /tags/list: the tag is listed, it is not,
\* or the body is no JSON.
TagBodies == {"listed", "absent", "not json"}

NoReply == [st |-> 0, dg |-> FALSE, realm |-> FALSE, scope |-> "", tags |-> "-"]

\* The responses to a request of a stage of the function:
\*   dg     the Docker-Content-Digest header is there (manifest requests)
\*   realm  WWW-Authenticate is a Bearer challenge naming a realm (401)
\*   scope  the scope that challenge names, "" when it names none (401)
\*   tags   the body of a 200 answer of /tags/list
Replies(stage) ==
    { r \in [st : Statuses, dg : BOOLEAN, realm : BOOLEAN,
             scope : {"", "pull"}, tags : TagBodies \cup {"-"}] :
        /\ r.dg => r.st = 200 /\ stage \in {"HEAD", "GET", "SWEEP"}
        /\ r.realm => r.st = 401
        /\ r.scope # "" => r.st = 401
        /\ r.tags # "-" <=> (stage = "TAGS" /\ r.st = 200) }

\* build_ops.py:233 - the ping of /v2/: it raises, or its answer names a
\* realm or does not
PingOutcomes == {"raise", "realm", "no realm"}

\* build_ops.py:247-255 - the token request: it raises; its status is not
\* 200; its body is no JSON; its body is JSON but no object, so that
\* data.get raises AttributeError; it is an object without a token; it is
\* an object with a token
TokenOutcomes == {"raise", "http error", "not json", "no object", "no token",
                  "token"}

AcrCalls ==
    { [fn |-> "acr_delete_image", pc |-> "call", image |-> i, creds |-> c,
       stage |-> "-", i |-> 0, rq |-> "-", r0 |-> NoReply, resp |-> NoReply,
       sends |-> 0, auth |-> "", tokScope |-> "-", token |-> "",
       seen |-> <<>>,
       tagFound |-> FALSE, deletes |-> 0, caught |-> FALSE, result |-> "-"] :
        i \in {"", "no slash", "registry/name:tag"}, c \in BOOLEAN }

\* A `return` of acr_delete_image.
acr_return(c) == [c EXCEPT !.pc = "done", !.rq = "-", !.result = "returned"]

\* The function without its outer try block.
acr_except_propagates(c) ==
    [c EXCEPT !.pc = "done", !.rq = "-", !.result = "raised"]

\* build_ops.py:354-355 - `except Exception`: the exception is logged and
\* the function returns
acr_except(c) ==
    [c EXCEPT !.pc = "done", !.rq = "-", !.caught = TRUE,
              !.result = "returned"]

\* build_ops.py:312, 342 - the scope the caller passes to
\* _request_with_token: pull for the reads, pull,push,delete for the DELETE
scope_of(stage) == IF stage = "DELETE" THEN "pull,push,delete" ELSE "pull"

\* The scope of the challenge taken before the scope of the caller.
need_scope_from_challenge(scope, chScope) ==
    IF chScope # "" THEN chScope ELSE scope

\* build_ops.py:266 - need_scope = scope or ch.get("scope") or ""
need_scope(scope, chScope) == IF scope # "" THEN scope ELSE chScope

\* build_ops.py:248-255 - the token _get_bearer_token_from_challenge
\* returns: "" unless the answer is 200 with an object holding a token
token_of(o) == IF o = "token" THEN "token" ELSE ""

\* Start _request_with_token for a stage: nothing sent yet.
acr_request(c, stage, i) ==
    [c EXCEPT !.stage = stage, !.i = i, !.rq = "send", !.r0 = NoReply,
              !.sends = 0, !.auth = "", !.tokScope = "-", !.token = ""]

\* The DELETE sent whatever the manifest response was.
acr_after_lookup_unchecked(c) == acr_request(c, "DELETE", 0)

\* build_ops.py:324-344 - after the manifest lookup: 404 goes to the
\* /tags/list check, any other status but 200 returns, a 200 without the
\* digest header returns, else the DELETE is sent
acr_after_lookup(c) ==
    CASE c.resp.st = 404 -> acr_request(c, "TAGS", 0)
      [] c.resp.st # 404 /\ c.resp.st # 200 -> acr_return(c)
      [] c.resp.st = 200 /\ ~c.resp.dg -> acr_return(c)
      [] OTHER -> acr_request(c, "DELETE", 0)

\* The sweep started whatever HEAD or GET was answered.
acr_after_first_always_sweep(c) == acr_request(c, "SWEEP", 1)

\* build_ops.py:318-323 - after HEAD, or after the GET that follows a 404:
\* 401 returns; a status not in (200, 201, 202) starts the sweep
acr_after_first(c) ==
    CASE c.resp.st = 401 -> acr_return(c)
      [] c.resp.st \notin {200, 201, 202, 401} -> acr_request(c, "SWEEP", 1)
      [] OTHER -> acr_after_lookup(c)

\* What the function does with the response r that _request_with_token
\* returns for the stage it is in; seen lists the manifest lookups answered
\* so far: the stage, the index of the Accept type of a sweep request, the
\* status.
\*   HEAD    build_ops.py:314-317   SWEEP   build_ops.py:293-307
\*   GET     build_ops.py:317       TAGS    build_ops.py:274-291, 326-330
\*   DELETE  build_ops.py:343-353
acr_on_reply(c, r) ==
    LET d == [c EXCEPT !.rq = "-",
                       !.seen = IF c.stage \in {"HEAD", "GET", "SWEEP"}
                                   THEN Append(@, [m |-> c.stage, a |-> c.i,
                                                   st |-> r.st])
                                   ELSE @]
    IN
    CASE c.stage = "HEAD" ->
            IF r.st = 404 THEN acr_request([d EXCEPT !.resp = r], "GET", 0)
                          ELSE acr_after_first([d EXCEPT !.resp = r])
      [] c.stage = "GET" -> acr_after_first([d EXCEPT !.resp = r])
      [] c.stage = "SWEEP" ->
            IF r.st \in {200, 401} \/ c.i = NumAccepts
               THEN acr_after_lookup([d EXCEPT !.resp = r])
               ELSE acr_request([d EXCEPT !.resp = r], "SWEEP", c.i + 1)
      [] c.stage = "TAGS" ->
            acr_return([d EXCEPT !.tagFound = (r.st = 200 /\ r.tags = "listed")])
      [] OTHER -> acr_return(d)

\* build_ops.py:168-183 - the early returns: no image, no credentials
\* (both before the try block), an image without "/"; else the HEAD request
AcrEnter ==
    /\ call.fn = "acr_delete_image" /\ call.pc = "call"
    /\ call' = IF call.image = "" \/ ~call.creds \/ call.image = "no slash"
                  THEN acr_return(call)
                  ELSE acr_request([call EXCEPT !.pc = "run"], "HEAD", 0)
    /\ UNCHANGED loopVars

\* build_ops.py:259-268 - _request_with_token: the request without a token;
\* an answer other than 401 is returned, a 401 goes on to the token
\* exchange, by the ping when the challenge names no realm
AcrSend ==
    /\ call.fn = "acr_delete_image" /\ call.pc = "run" /\ call.rq = "send"
    /\ LET c == [call EXCEPT !.deletes = IF call.stage = "DELETE" THEN @ + 1 ELSE @,
                             !.sends = @ + 1, !.auth = ""]
       IN  \/ call' = acr_except(c)
           \/ \E r \in Replies(call.stage) :
                 call' = IF r.st # 401 THEN acr_on_reply(c, r)
                         ELSE [c EXCEPT !.r0 = r,
                                        !.rq = IF r.realm THEN "token" ELSE "ping"]
    /\ UNCHANGED loopVars

\* build_ops.py:231-242 - no realm in the challenge: ping /v2/; an exception
\* of the ping is swallowed; without a realm the token is "" and
\* _request_with_token returns the 401 response
AcrPing ==
    /\ call.fn = "acr_delete_image" /\ call.pc = "run" /\ call.rq = "ping"
    /\ \E o \in PingOutcomes :
          call' = IF o = "realm" THEN [call EXCEPT !.rq = "token"]
                                ELSE acr_on_reply(call, call.r0)
    /\ UNCHANGED loopVars

\* build_ops.py:244-255, 268-270 - the token request; its exception and the
\* AttributeError of a body that is no object leave the helper; no token
\* returns the 401 response
AcrToken ==
    /\ call.fn = "acr_delete_image" /\ call.pc = "run" /\ call.rq = "token"
    /\ \E o \in TokenOutcomes :
          LET c == [call EXCEPT !.token = token_of(o),
                      !.tokScope = need_scope(scope_of(call.stage), call.r0.scope)]
          IN
          call' = CASE o \in {"raise", "no object"} -> acr_except(c)
                    [] c.token # "" -> [c EXCEPT !.rq = "resend"]
                    [] OTHER -> acr_on_reply(c, c.r0)
    /\ UNCHANGED loopVars

\* build_ops.py:271-272 - the request again, with the Bearer token; its
\* answer is returned whatever its status
AcrResend ==
    /\ call.fn = "acr_delete_image" /\ call.pc = "run" /\ call.rq = "resend"
    /\ LET c == [call EXCEPT !.deletes = IF call.stage = "DELETE" THEN @ + 1 ELSE @,
                             !.sends = @ + 1, !.auth = "Bearer " \o call.token]
       IN  \/ call' = acr_except(c)
           \/ \E r \in Replies(call.stage) : call' = acr_on_reply(c, r)
    /\ UNCHANGED loopVars

AcrDeleteImage == AcrEnter \/ AcrSend \/ AcrPing \/ AcrToken \/ AcrResend

\* ---- git_clone (build_ops.py:77-118), one step per command

\* What subprocess.run of a git command ends with.
GitOutcomes == {"exit 0", "exit 1", "TimeoutExpired", "OSError"}

\* git clone succeeds only into a path that is absent or an empty directory.
clone_can_succeed(dir) == dir \in {"absent", "empty"}

\* What a clone leaves at the destination: the repository when it
\* succeeded; when it failed, the path as it was or a partial tree.
after_clone(dir, out) ==
    IF out = "exit 0" THEN {"full"}
    ELSE IF dir = "file" THEN {"file"} ELSE {dir, "full"}

GitCalls ==
    { [fn |-> "git_clone", pc |-> "call", url |-> u, ssh |-> k, dir |-> d,
       shallow |-> "-", clean |-> "-", full |-> "-", checkout |-> "-",
       dirAtFull |-> "-", result |-> "-"] :
        u \in BOOLEAN, k \in BOOLEAN, d \in DirStates }

\* build_ops.py:78-82 - an empty repoSshUrl raises; build_git_ssh_command
\* raises when the key or the known-hosts path is not configured
GitEnter ==
    /\ call.fn = "git_clone" /\ call.pc = "call"
    /\ call' = IF ~call.url \/ ~call.ssh
                  THEN [call EXCEPT !.pc = "done", !.result = "raised"]
                  ELSE [call EXCEPT !.pc = "shallow"]
    /\ UNCHANGED loopVars

\* build_ops.py:84-96 - after the shallow clone: `return` on exit status 0;
\* a non-zero status raises RuntimeError inside the try, and that as well
\* as an exception of subprocess.run goes to the except block
after_shallow(out) == IF out = "exit 0" THEN "done" ELSE "clean"

\* build_ops.py:85-95 - git clone --depth 1 --branch ref
GitShallow ==
    /\ call.fn = "git_clone" /\ call.pc = "shallow"
    /\ \E out \in GitOutcomes : \E d \in after_clone(call.dir, out) :
          /\ out = "exit 0" => clone_can_succeed(call.dir)
          /\ call' = [call EXCEPT !.pc = after_shallow(out), !.shallow = out,
                                  !.dir = d,
                                  !.result = IF after_shallow(out) = "done"
                                                THEN "returned" ELSE "-"]
    /\ UNCHANGED loopVars

\* build_ops.py:96-97 - except Exception: ensure_clean_dir(dest_dir); when
\* it raises, the exception leaves git_clone
GitClean ==
    /\ call.fn = "git_clone" /\ call.pc = "clean"
    /\ \E rm \in RmtreeOutcomes : \E mk \in MakedirsOutcomes :
          LET r == ensure_clean_dir(call.dir, rm, mk) IN
          call' = [call EXCEPT !.dir = r.after, !.clean = r.result,
                               !.pc = IF r.result = "raised" THEN "done" ELSE "full",
                               !.result = IF r.result = "raised" THEN "raised" ELSE "-"]
    /\ UNCHANGED loopVars

\* build_ops.py:98-107 - git clone without --depth; a non-zero status
\* raises RuntimeError, an exception of subprocess.run leaves the function
GitFull ==
    /\ call.fn = "git_clone" /\ call.pc = "full"
    /\ \E out \in GitOutcomes : \E d \in after_clone(call.dir, out) :
          /\ out = "exit 0" => clone_can_succeed(call.dir)
          /\ call' = [call EXCEPT !.full = out, !.dirAtFull = call.dir, !.dir = d,
                                  !.pc = IF out = "exit 0" THEN "checkout" ELSE "done",
                                  !.result = IF out = "exit 0" THEN "-" ELSE "raised"]
    /\ UNCHANGED loopVars

\* build_ops.py:108-118 - git checkout ref in the destination; a non-zero
\* status raises RuntimeError
GitCheckout ==
    /\ call.fn = "git_clone" /\ call.pc = "checkout"
    /\ \E out \in GitOutcomes :
          call' = [call EXCEPT !.checkout = out, !.pc = "done",
                               !.result = IF out = "exit 0" THEN "returned"
                                                            ELSE "raised"]
    /\ UNCHANGED loopVars

GitClone == GitEnter \/ GitShallow \/ GitClean \/ GitFull \/ GitCheckout

CallInit ==
    LoopInit
    /\ call \in IntervalCalls \cup RmiCalls \cup CleanDirCalls \cup AcrCalls
                \cup GitCalls

CallNext ==
    HbInterval \/ DockerRmi \/ EnsureCleanDir \/ AcrDeleteImage \/ GitClone

CallSpec == CallInit /\ [][CallNext]_vars

\* ------------------------------------------------------------------ claims

ReportIdx == 1..Len(reports)

\* The report_job calls for job id made during iteration i.
ReportsOf(id, i) ==
    { n \in ReportIdx : reports[n].job = id /\ reports[n].iter = i }

\* All report_job calls for job id.
AllReportsOf(id) == { n \in ReportIdx : reports[n].job = id }

\* The queue hands out job i at the i-th claim; its execution is over when
\* the handler has run or a later claim was made.
ExecutionOver(i) ==
    claims > i \/ (claims = i /\ pc \in {"stop", "retry", "claim"})

\* C1: a claimed job with a non-empty id gets exactly one report_job call
\* during its execution - never two, and one once the execution is over -
\* whatever the report call itself does.
C1_Theorem ==
    \A i \in claimed :
       /\ Cardinality(ReportsOf(i, i)) <= 1
       /\ ExecutionOver(i) => Cardinality(ReportsOf(i, i)) = 1

\* C1: an execution is over, its one report_job call raised.
C1_Witness ==
    \E i \in claimed :
       /\ claims = i /\ pc = "retry" /\ reportRaised
       /\ Cardinality(ReportsOf(i, i)) = 1

\* C2: the status reported for the job of the running iteration is
\* SUCCEEDED exactly when no step of the iteration raised, and FAILED
\* otherwise.
C2_Theorem ==
    \A n \in ReportIdx :
       /\ reports[n].status \in {"SUCCEEDED", "FAILED"}
       /\ (reports[n].iter = claims /\ pc \in {"stop", "retry"})
             => (reports[n].status = "SUCCEEDED" <=> exc = "")

\* C2: a job whose deploy phase did not complete has been reported FAILED.
C2_Witness ==
    /\ pc = "stop" /\ phase = "DEPLOY" /\ exc # ""
    /\ \E n \in ReportIdx :
          reports[n].iter = claims /\ reports[n].job = job_id
          /\ reports[n].status = "FAILED"

\* C3: at no instant are two heartbeat requests for the same job in flight.
C3_Statement ==
    \A k1 \in Iters : \A k2 \in Iters :
       (k1 # k2 /\ hb[k1].pc = "inflight" /\ hb[k2].pc = "inflight"
          /\ hb[k1].sent # NoId) => hb[k1].sent # hb[k2].sent

\* C4: over all iterations a job id gets at most one report_job call.
C4_Statement ==
    \A id \in claimed : Cardinality(AllReportsOf(id)) <= 1

\* C5: a thread that received a status that is not RUNNING terminates and
\* does not come back to its loop test; after RUNNING or no status it goes
\* on to the interval wait.
C5_Statement ==
    [][\A k \in Iters :
          /\ hb[k].got = "CANCELED" => hb'[k].pc # "loop"
          /\ (hb[k].pc = "inflight" /\ hb'[k].pc # "inflight"
                /\ hb'[k].got \in {"", "RUNNING"}) => hb'[k].pc = "wait"]_vars

\* C6: when a periodic heartbeat call raises, the thread goes to the interval
\* wait and from there back to the loop test and, unless stopped, to the
\* next call; the step adds no report and leaves the job loop and the stop
\* flags as they are.
C6_Theorem ==
    [][\A k \in Iters :
          /\ (hb[k].pc = "inflight" /\ hb'[k].pc # "inflight"
                /\ hb'[k].got = "raise")
               => /\ hb'[k].pc = "wait"
                  /\ UNCHANGED <<pc, exc, reports, isSet, job_id>>
          /\ (hb[k].pc = "wait" /\ hb'[k].pc # "wait") => hb'[k].pc = "loop"
          /\ (hb[k].pc = "loop" /\ hb'[k].pc # "loop" /\ ~isSet[stop_hb])
               => hb'[k].pc = "acquire"]_vars

\* C6: a thread sends again after two failed calls in a row, and no job has
\* been reported.
C6_Witness ==
    \E k \in Iters :
       hb[k].fails = 2 /\ hb[k].pc = "inflight" /\ reports = <<>>

\* C7: a failed heartbeat call is never the exception that ends a job, so
\* no job is reported FAILED because of it.
C7_Statement ==
    ~ /\ exc = "heartbeat_job"
      /\ \E n \in ReportIdx :
            reports[n].iter = claims /\ reports[n].status = "FAILED"

\* C8: a job with a supplied image never enters the build branch
\* (main.py:76-103), the only place that calls ensure_clean_dir, git_clone,
\* docker_build and docker_push and that sets built_image, without which
\* no cleanup runs.
C8_Theorem ==
    (job # None /\ job.image) => (phase # "CLONE" /\ exc # "missing ACR_REGISTRY")

\* C8: a job with a supplied image is at its DEPLOY heartbeat.
C8_Witness ==
    job # None /\ job.image /\ pc = "phase_call" /\ phase = "DEPLOY"

\* C9: the steps of an iteration whose claim returned no job change the
\* position of the loop only: the loop goes from the claim to the sleep and
\* back to the claim; no thread is started, no report made, no lock or
\* flag touched.
C9_Theorem ==
    [][(pc' # pc /\ (pc = "idle" \/ pc' = "idle"))
          => /\ pc = "idle" => pc' = "claim"
             /\ pc' = "idle" => pc = "claim" /\ job' = None
             /\ UNCHANGED <<job_id, stop_hb, hb_lock, isSet, holder, hb,
                            phase, exc, reportRaised, reports, claimed>>]_vars

\* C9: the loop sleeps after an empty claim while an earlier job's thread
\* is alive and that job has been reported.
C9_Witness ==
    /\ pc = "idle" /\ reports # <<>>
    /\ \E k \in Iters : hb[k].pc \in {"loop", "acquire", "inflight", "wait"}

C10_Safe ==
    /\ (pc \in {"stop", "retry"} /\ job_id # NoId)
          => /\ reports # <<>>
             /\ reports[Len(reports)] =
                   [job |-> job_id, status |-> "FAILED", iter |-> claims]
    /\ (pc = "retry" /\ hb[claims].pc # "none")
          => stop_hb = claims /\ isSet[claims]
    /\ pc \in {"claim", "idle", "assign", "fields", "start_hb", "image",
               "check", "phase_lock", "phase_call", "except", "stop", "retry"}
    /\ pc = "retry" => ENABLED RetrySleep

Alive(k) == hb[k].pc \in {"loop", "acquire", "inflight", "wait"}

\* C13: at every instant at most one heartbeat thread is alive: the thread
\* of the previous job has ended when the thread of the next job starts.
C13_Statement ==
    Cardinality({ k \in Iters : Alive(k) }) <= 1

\* The job of the running iteration is built from source and no registry
\* is known for it.
NoRegistryJob ==
    job # None /\ job.wellformed /\ ~job.image /\ ~job.registry

\* C18, as claimed: a job built from source with no registry never comes to
\* the CLONE phase (the only way to ensure_clean_dir, git_clone,
\* docker_build and docker_push) nor to the deploy branch, fails with the
\* registry error only, and has a FAILED report once the handler has run.
C18_Statement ==
    NoRegistryJob
       => /\ phase = ""
          /\ pc \notin {"check", "phase_lock", "phase_call"}
          /\ exc \in {"", "missing ACR_REGISTRY"}
          /\ pc \in {"stop", "retry"}
                => \E n \in ReportIdx :
                      reports[n].iter = claims /\ reports[n].status = "FAILED"

\* C18, amended: the same, the FAILED report being made, for the id of the
\* job, when that id is non-empty.
C18_Theorem ==
    NoRegistryJob
       => /\ phase = ""
          /\ pc \notin {"check", "phase_lock", "phase_call"}
          /\ exc \in {"", "missing ACR_REGISTRY"}
          /\ (pc \in {"stop", "retry"} /\ job.id # NoId)
                => \E n \in ReportIdx :
                      /\ reports[n].iter = claims
                      /\ reports[n].job = job.id
                      /\ reports[n].status = "FAILED"

\* C18: a job with an id, built from source with no registry, has failed
\* with the registry error and has been reported FAILED.
C18_Witness ==
    /\ NoRegistryJob /\ job.id # NoId
    /\ pc = "retry" /\ exc = "missing ACR_REGISTRY" /\ phase = ""
    /\ \E n \in ReportIdx :
          reports[n].iter = claims /\ reports[n].job = job.id
          /\ reports[n].status = "FAILED"

C14_Statement ==
    (call.fn = "hb_interval" /\ call.pc = "done")
       => /\ call.interval < call.lease
          /\ call.interval * 2 <= call.lease

\* C14, amended: for a lease of 10 seconds or more the interval is shorter
\* than the lease and fits twice into it; below 10 the interval is the
\* floor of 5 seconds, which does not fit twice into the lease.
C14_Theorem ==
    (call.fn = "hb_interval" /\ call.pc = "done")
       => /\ call.lease >= 10
               => /\ call.interval < call.lease
                  /\ call.interval * 2 <= call.lease
          /\ call.lease < 10
               => /\ call.interval = 5
                  /\ call.interval * 2 > call.lease

\* C14: the interval of the default lease of 30 seconds is 15 seconds.
C14_Witness ==
    call.fn = "hb_interval" /\ call.pc = "done"
       /\ call.lease = 30 /\ call.interval = 15

C15_Theorem ==
    call.fn = "acr_delete_image"
       => /\ call.pc \in {"call", "run", "done"}
          /\ call.result \in {"-", "returned"}
          /\ call.pc = "done" <=> call.result = "returned"
          /\ call.pc = "run" => ENABLED AcrDeleteImage

\* C15: the DELETE request sent again with the token raised, the exception
\* was caught and the function has returned.
C15_Witness ==
    call.fn = "acr_delete_image" /\ call.pc = "done" /\ call.caught
       /\ call.stage = "DELETE" /\ call.deletes = 2
       /\ call.result = "returned"

\* C16: a DELETE request is sent, or about to be sent, only when the
\* manifest lookup of this call ended with a 200 response carrying the
\* Docker-Content-Digest header; when the call has ended after a 404 (the
\* tag listed or not), a 401, another status or a 200 without the header,
\* no DELETE was sent.
C16_Theorem ==
    call.fn = "acr_delete_image"
       => /\ (call.stage = "DELETE" \/ call.deletes > 0)
                => call.resp.st = 200 /\ call.resp.dg
          /\ (call.pc = "done" /\ ~(call.resp.st = 200 /\ call.resp.dg))
                => call.deletes = 0
          /\ call.stage = "TAGS" => call.resp.st = 404 /\ call.deletes = 0

\* C16: the manifest lookup ended with 200 and the digest header, the
\* DELETE was sent once and answered, and the call has returned.
C16_Witness ==
    call.fn = "acr_delete_image" /\ call.pc = "done" /\ call.deletes = 1
       /\ call.resp.st = 200 /\ call.resp.dg /\ ~call.caught

\* C21: in git_clone the shallow clone is the first command; the full
\* clone runs exactly when the shallow clone failed (and the directory
\* could be prepared for it), and into a directory that is empty; the
\* checkout runs only after the full clone succeeded; a failed full clone
\* or checkout makes the function raise.
C21_Statement ==
    call.fn = "git_clone"
       => /\ (call.full # "-" \/ call.checkout # "-") => call.shallow # "-"
          /\ call.pc = "done"
                => (call.full # "-" <=> (call.shallow \notin {"-", "exit 0"}
                                             /\ call.clean = "returned"))
          /\ call.full # "-" => call.dirAtFull = "empty"
          /\ call.checkout # "-" => call.full = "exit 0"
          /\ (call.pc = "done"
                /\ (call.full \notin {"-", "exit 0"}
                      \/ call.checkout \notin {"-", "exit 0"}))
                => call.result = "raised"

\* C22: one _request_with_token call sends its request at most twice.  The
\* token exchange and the second send come only after a first send
\* answered 401; the second send needs a non-empty token, carries
\* Authorization: Bearer {token}, and its token was requested with the
\* scope the caller passed, whatever scope the challenge names; after the
\* second send nothing more is sent for the call, a 401 answer included.
C22_Theorem ==
    call.fn = "acr_delete_image"
       => /\ call.sends <= 2
          /\ call.rq \in {"ping", "token", "resend"}
                => call.sends = 1 /\ call.r0.st = 401 /\ call.auth = ""
          /\ call.rq = "resend"
                => /\ call.token # ""
                   /\ call.tokScope = scope_of(call.stage)
          /\ call.sends = 2
                => /\ call.auth = "Bearer " \o call.token /\ call.token # ""
                   /\ call.tokScope = scope_of(call.stage)
                   /\ call.rq = "-"
          /\ call.tokScope # "-" => call.tokScope = scope_of(call.stage)

\* C22: the DELETE was answered 401 with a challenge naming the scope pull,
\* the token was requested with pull,push,delete, the DELETE was sent again
\* with the token, and the call has returned after that second send.
C22_Witness ==
    call.fn = "acr_delete_image" /\ call.pc = "done" /\ call.stage = "DELETE"
       /\ call.sends = 2 /\ call.deletes = 2 /\ ~call.caught
       /\ call.r0.st = 401 /\ call.r0.scope = "pull"
       /\ call.tokScope = "pull,push,delete" /\ call.auth = "Bearer token"

\* The manifest lookups answered so far that belong to the sweep.
SweepsSeen == { n \in 1..Len(call.seen) : call.seen[n].m = "SWEEP" }

\* C23: the first manifest lookup is the HEAD; a GET follows exactly a HEAD
\* answered 404; the sweep starts only after a HEAD or GET answered with a
\* status other than 200, 201, 202 and 401, takes the Accept types one by
\* one in their order, and goes on only after an answer that is neither
\* 200 nor 401; the request in flight is the one this order allows next.
C23_Theorem ==
    call.fn = "acr_delete_image"
       => /\ \A n \in 1..Len(call.seen) :
               LET e == call.seen[n] IN
               /\ e.m = "HEAD" <=> n = 1
               /\ e.m = "GET" <=> (n = 2 /\ call.seen[1].st = 404)
               /\ e.m = "SWEEP"
                    => /\ e.a \in 1..NumAccepts
                       /\ IF call.seen[n - 1].m = "SWEEP"
                             THEN /\ e.a = call.seen[n - 1].a + 1
                                  /\ call.seen[n - 1].st \notin {200, 401}
                             ELSE /\ e.a = 1
                                  /\ call.seen[n - 1].st \notin {200, 201, 202, 401}
          /\ (call.pc = "run" /\ call.stage = "HEAD") => call.seen = <<>>
          /\ (call.pc = "run" /\ call.stage = "GET")
                => Len(call.seen) = 1 /\ call.seen[1].st = 404
          /\ (call.pc = "run" /\ call.stage = "SWEEP")
                => /\ call.i = Cardinality(SweepsSeen) + 1
                   /\ call.seen[Len(call.seen)].st \notin {200, 401}
          /\ call.stage \in {"TAGS", "DELETE"}
                => call.seen[Len(call.seen)].st \in {200, 404}

\* C23: HEAD was answered 404, the GET 500, the first sweep request 404 and
\* the second 200, after which no further lookup was made and the call has
\* ended.
C23_Witness ==
    call.fn = "acr_delete_image" /\ call.pc = "done"
       /\ Len(call.seen) = 4
       /\ call.seen[1] = [m |-> "HEAD", a |-> 0, st |-> 404]
       /\ call.seen[2] = [m |-> "GET", a |-> 0, st |-> 500]
       /\ call.seen[3] = [m |-> "SWEEP", a |-> 1, st |-> 404]
       /\ call.seen[4] = [m |-> "SWEEP", a |-> 2, st |-> 200]

\* C24: a heartbeat lock is held only by a thread, or by the job loop,
\* that is inside its heartbeat call under that lock, and the step that
\* ends the call - by return or by exception - can be taken and frees the
\* lock; so whoever waits for a lock waits for a call that ends, and no
\* thread ever waits while holding a lock.
C24_Theorem ==
    /\ \A l \in Iters :
          /\ holder[l] \in {Free, MainThread} \cup Iters
          /\ holder[l] = MainThread
                => pc = "phase_call" /\ hb_lock = l /\ ENABLED PhaseHeartbeat
          /\ holder[l] \in Iters
                => /\ hb[holder[l]].pc = "inflight" /\ hb[holder[l]].lk = l
                   /\ ENABLED HbReturn(holder[l])
    /\ \A k \in Iters :
          /\ hb[k].pc = "inflight" => holder[hb[k].lk] = k
          /\ hb[k].pc # "inflight" => hb[k].lk = Unbound
    /\ pc = "phase_call" => holder[hb_lock] = MainThread

\* C24: the heartbeat call of a thread raised while the thread held the
\* lock the job loop is waiting for, and the lock is free.
C24_Witness ==
    /\ pc = "phase_lock" /\ holder[hb_lock] = Free
    /\ \E k \in Iters :
          hb[k].pc = "wait" /\ hb[k].got = "raise" /\ k = hb_lock

\* C25: once the stop flag of a job is set, the thread of that job ends at
\* its next loop test, so that it sends at most the one request it was
\* about to send; and an interval wait it comes to returns at once, the
\* flag it waits on being set.
C25_Statement ==
    [][\A k \in Iters :
          isSet[k]
             => /\ (hb[k].pc = "loop" /\ hb'[k].pc # "loop") => hb'[k].pc = "done"
                /\ hb'[k].pc = "wait" => isSet'[stop_hb']]_vars

====
